---- MODULE Spec2Model ----
(***************************************************************************)
(* Model of MessageBuilder (src/src/builders/message.rs): the builder's    *)
(* fields, its configuration operations, the payload framing of            *)
(* get_request, the validation of check_data and the four dispatch         *)
(* operations calling the gstd::msg transport primitives.                  *)
(* Also the send_msg! macro (src/src/macros/send_message.rs) and the era   *)
(* arithmetic of src/src/funcs.rs and src/src/utils.rs, under EraSpec.     *)
(***************************************************************************)
EXTENDS Integers, Sequences, FiniteSets, TLC

(* ------------------------------ bounds --------------------------------- *)
\* largest number of add_arg calls on one builder
MaxArgs == 2
\* largest argument of blocks_to_send_delayed_message
MaxDelay == 2
\* largest argument of with_value
MaxValue == 1

\* eras after a reference block that the sampled block heights span
MaxEras == 2
\* how far from an era boundary, on either side, block heights are sampled
MaxOffset == 2

(* ----------------------- consts.rs and utils.rs ------------------------ *)
ONE_ERA_IN_BLOCKS == 14400
LAST_TESTNET_ACTIVE_ERA_REGISTERED == 1526
LAST_TESTNET_ACTIVE_ERA_INIT_BLOCK == 21804388
LAST_MAINNET_ACTIVE_ERA_REGISTERED == 1669
LAST_MAINNET_ACTIVE_ERA_INIT_BLOCK == 27161113
utils_ONE_ERA_IN_BLOCKS == 14400
utils_LAST_TESTNET_ACTIVE_ERA_REGISTERED == 1326
utils_LAST_TESTNET_ACTIVE_ERA_INIT_BLOCK == 18925403
utils_LAST_MAINNET_ACTIVE_ERA_REGISTERED == 1469
utils_LAST_MAINNET_ACTIVE_ERA_INIT_BLOCK == 24302610

(* --------------------------- input domains ----------------------------- *)
\* the four reference blocks
InitBlocks ==
    {LAST_TESTNET_ACTIVE_ERA_INIT_BLOCK, LAST_MAINNET_ACTIVE_ERA_INIT_BLOCK,
     utils_LAST_TESTNET_ACTIVE_ERA_INIT_BLOCK, utils_LAST_MAINNET_ACTIVE_ERA_INIT_BLOCK}
\* values of exec::block_height(): block 0, and blocks just below each
\* reference block and around each of the era boundaries after it
Heights ==
    {0} \cup
    UNION {{i - d : d \in 1..MaxOffset} \cup
           {i + e * ONE_ERA_IN_BLOCKS + d : e \in 0..MaxEras, d \in 0..MaxOffset} \cup
           {i + e * ONE_ERA_IN_BLOCKS - d : e \in 1..(MaxEras + 1), d \in 1..MaxOffset}
           : i \in InitBlocks}

\* ActorId values handed to send_to
Actors == {"actorX", "actorY"}
\* &'static str names, as their UTF-8 bytes ("S", "M1")
Names == {<<83>>, <<77, 49>>}
\* values handed to add_arg: a u8, a String and the unit value
ArgValues == {<<"u8", 7>>, <<"str", <<72, 105>>>>, <<"unit">>}
\* ReservationId values handed to send_delayed_with_reservation
ReservationIds == {"rsvA", "rsvB"}
\* what the transport primitives can return
MessageIds == {"mid"}
CoreErrors == {"rejected", "exhausted"}
\* what the reply future can resolve to
ReplyErrors == {"timeout", "errorReply"}
EchoNames == {<<83>>, <<69>>}
ReplyVals == {42, 9}

(* ------------------------------ Option --------------------------------- *)
None == <<>>
Some(x) == <<x>>
is_none(o) == o = <<>>
is_some(o) == o # <<>>

(* ------------------------ SCALE encoding (Encode) ---------------------- *)
\* Compact<u32> length prefix: single-byte mode below 64, two-byte mode above
encode_compact(n) ==
    IF n < 64 THEN <<n * 4>>
    ELSE <<(n * 4 + 1) % 256, (n * 4 + 1) \div 256>>

\* str / String: compact length, then the bytes
encode_str(s) == encode_compact(Len(s)) \o s

\* (): zero bytes
encode_unit == <<>>

encode(a) ==
    CASE a[1] = "u8" -> <<a[2]>>
      [] a[1] = "str" -> encode_str(a[2])
      [] a[1] = "unit" -> encode_unit

(* ------------------------------- state --------------------------------- *)
VARIABLES
    to,                \* Option<ActorId>
    service_name,      \* Option<&'static str>
    method_name,       \* Option<&'static str>
    payload,           \* Option<Vec<u8>>
    delayed_duration,  \* u32
    value,             \* u128
    args,              \* the values handed to add_arg so far, in call order
    state,             \* lifecycle of the builder
    op,                \* the dispatch operation that consumed the builder
    reservation_id,    \* Option: argument of send_delayed_with_reservation
    calls,             \* transport primitives invoked, in order
    reply,             \* Option: what the reply future resolved to
    result,            \* Option: what the dispatch operation returned
    last_set,          \* Options: the last argument of send_to,
                       \* blocks_to_send_delayed_message and with_value
    block_height,      \* exec::block_height()
    era_call,          \* the era function called last
    era_ret            \* what it returned

builder == <<to, service_name, method_name, payload, delayed_duration, value>>
era == <<block_height, era_call, era_ret>>
vars == <<to, service_name, method_name, payload, delayed_duration, value,
          args, state, op, reservation_id, calls, reply, result,
          last_set, block_height, era_call, era_ret>>

\* MessageBuilder::new
Init ==
    /\ to = None
    /\ service_name = None
    /\ method_name = None
    /\ payload = None
    /\ delayed_duration = 0
    /\ value = 0
    /\ args = <<>>
    /\ state = "Configuring"
    /\ op = "none"
    /\ reservation_id = None
    /\ calls = <<>>
    /\ reply = None
    /\ result = None
    /\ last_set = [send_to |-> None, blocks |-> None, with_value |-> None]
    /\ block_height = 0
    /\ era_call = "none"
    /\ era_ret = 0

outside == <<state, op, reservation_id, calls, reply, result, era>>

(* ---------------------- configuration operations ----------------------- *)
send_to(a) ==
    /\ state = "Configuring"
    /\ to' = Some(a)
    /\ last_set' = [last_set EXCEPT !.send_to = Some(a)]
    /\ UNCHANGED <<service_name, method_name, payload, delayed_duration, value, args>>
    /\ UNCHANGED outside

blocks_to_send_delayed_message(blocks) ==
    /\ state = "Configuring"
    /\ delayed_duration' = blocks
    /\ last_set' = [last_set EXCEPT !.blocks = Some(blocks)]
    /\ UNCHANGED <<to, service_name, method_name, payload, value, args>>
    /\ UNCHANGED outside

set_service_name(s) ==
    /\ state = "Configuring"
    /\ service_name' = Some(s)
    /\ UNCHANGED last_set
    /\ UNCHANGED <<to, method_name, payload, delayed_duration, value, args>>
    /\ UNCHANGED outside

set_method_name(m) ==
    /\ state = "Configuring"
    /\ method_name' = Some(m)
    /\ UNCHANGED last_set
    /\ UNCHANGED <<to, service_name, payload, delayed_duration, value, args>>
    /\ UNCHANGED outside

\* payload.get_or_insert(vec![]), then arg.encode_to(payload_vec)
add_arg(arg) ==
    /\ state = "Configuring"
    /\ Len(args) < MaxArgs
    /\ LET payload_vec == IF is_none(payload) THEN <<>> ELSE payload[1]
       IN  payload' = Some(payload_vec \o encode(arg))
    /\ args' = Append(args, arg)
    /\ UNCHANGED last_set
    /\ UNCHANGED <<to, service_name, method_name, delayed_duration, value>>
    /\ UNCHANGED outside

\* with_value that also clears the delay
with_value_resets_delay(v) ==
    /\ state = "Configuring"
    /\ value' = v
    /\ delayed_duration' = 0
    /\ last_set' = [last_set EXCEPT !.with_value = Some(v)]
    /\ UNCHANGED <<to, service_name, method_name, payload, args>>
    /\ UNCHANGED outside

with_value(v) ==
    /\ state = "Configuring"
    /\ value' = v
    /\ last_set' = [last_set EXCEPT !.with_value = Some(v)]
    /\ UNCHANGED <<to, service_name, method_name, payload, delayed_duration, args>>
    /\ UNCHANGED outside

(* ------------------------ SCALE decoding (Decode) ---------------------- *)
DecodeFail == [ok |-> FALSE, val |-> <<>>, rest |-> <<>>]

\* Compact<u32>: the mode is the two low bits of the first byte; an encoding
\* longer than the value needs is rejected
decode_compact(b) ==
    IF Len(b) = 0 THEN DecodeFail
    ELSE CASE b[1] % 4 = 0 ->
                [ok |-> TRUE, val |-> <<b[1] \div 4>>, rest |-> SubSeq(b, 2, Len(b))]
           [] b[1] % 4 = 1 ->
                IF Len(b) < 2 THEN DecodeFail
                ELSE LET n == (b[1] + 256 * b[2]) \div 4
                     IN  IF n > 63
                         THEN [ok |-> TRUE, val |-> <<n>>, rest |-> SubSeq(b, 3, Len(b))]
                         ELSE DecodeFail
           [] b[1] % 4 = 2 ->
                IF Len(b) < 4 THEN DecodeFail
                ELSE LET n == (b[1] + 256 * b[2] + 65536 * b[3] + 16777216 * b[4]) \div 4
                     IN  IF n > 16383
                         THEN [ok |-> TRUE, val |-> <<n>>, rest |-> SubSeq(b, 5, Len(b))]
                         ELSE DecodeFail
           [] b[1] % 4 = 3 ->
                IF b[1] \div 4 # 0 \/ Len(b) < 5 THEN DecodeFail
                ELSE LET n == b[2] + 256 * b[3] + 65536 * b[4] + 16777216 * b[5]
                     IN  IF n > 1073741823
                         THEN [ok |-> TRUE, val |-> <<n>>, rest |-> SubSeq(b, 6, Len(b))]
                         ELSE DecodeFail

\* String: compact length, then that many bytes (the model's names are ASCII)
decode_str(b) ==
    LET c == decode_compact(b)
    IN  IF ~c.ok \/ Len(c.rest) < c.val[1] THEN DecodeFail
        ELSE [ok |-> TRUE,
              val |-> <<SubSeq(c.rest, 1, c.val[1])>>,
              rest |-> SubSeq(c.rest, c.val[1] + 1, Len(c.rest))]

\* R, instantiated as u8: one byte
decode_R(b) ==
    IF Len(b) = 0 THEN DecodeFail
    ELSE [ok |-> TRUE, val |-> <<b[1]>>, rest |-> SubSeq(b, 2, Len(b))]

\* (String, String, R): the three fields in order; input left over is ignored
decode_reply(b) ==
    LET s == decode_str(b)
    IN  IF ~s.ok THEN DecodeFail
        ELSE LET m == decode_str(s.rest)
             IN  IF ~m.ok THEN DecodeFail
                 ELSE LET r == decode_R(m.rest)
                      IN  IF ~r.ok THEN DecodeFail
                          ELSE [ok |-> TRUE,
                                val |-> <<s.val[1], m.val[1], r.val[1]>>,
                                rest |-> r.rest]

(* ------------------------------ transport ------------------------------ *)
Ok(v) == [ok |-> TRUE, val |-> v]
Err(e) == [ok |-> FALSE, val |-> e]

\* what send_bytes, send_bytes_delayed and send_bytes_delayed_from_reservation
\* can return
SendResults ==
    {Ok(<<"MessageId", m>>) : m \in MessageIds} \cup
    {Err(<<"CoreError", e>>) : e \in CoreErrors}

\* what send_bytes_for_reply_as can return: the reply future or an error
ForReplyResults ==
    {Ok(<<"Future">>)} \cup {Err(<<"CoreError", e>>) : e \in CoreErrors}

\* the bytes of a reply: well-formed tuples and undecodable ones
ReplyBytes ==
    {encode_str(s) \o encode_str(m) \o <<v>> :
        s \in EchoNames, m \in EchoNames, v \in ReplyVals}
    \cup {<<>>, <<8, 83>>, <<4, 83, 4>>}

\* what the reply future can resolve to
Replies ==
    {Ok(b) : b \in ReplyBytes} \cup {Err(<<"Reply", e>>) : e \in ReplyErrors}

\* one invocation of a transport primitive, with what it returned
Call(prim, rsv, dest, bytes, val, delay, deposit, ret) ==
    [prim |-> prim, reservation |-> rsv, dest |-> dest, payload |-> bytes,
     value |-> val, delay |-> delay, reply_deposit |-> deposit, ret |-> ret]

(* --------------------- validation and payload framing ------------------ *)
\* check_data that misses "method without service"
check_data_one_sided ==
    LET sails_check_1 == is_some(service_name) /\ is_none(method_name)
    IN  is_none(to) \/ sails_check_1

\* TRUE when check_data panics
check_data ==
    LET sails_check_1 == is_some(service_name) /\ is_none(method_name)
        sails_check_2 == is_none(service_name) /\ is_some(method_name)
    IN  is_none(to) \/ sails_check_1 \/ sails_check_2

\* the request bytes, or the panic of unwrapping a None
get_request ==
    LET p == IF is_none(payload)
             THEN [panicked |-> TRUE, bytes |-> <<>>]
             ELSE [panicked |-> FALSE, bytes |-> encode_unit]
        contract_payload == is_some(service_name) /\ is_some(method_name)
    IN  IF p.panicked THEN p
        ELSE IF contract_payload
             THEN [panicked |-> FALSE,
                   bytes |-> encode_str(service_name[1]) \o
                             encode_str(method_name[1]) \o p.bytes]
             ELSE p

\* Error::Core(error), also what `?` converts a CoreError into
map_err(ret) == IF ret.ok THEN ret ELSE Err(<<"Core", ret.val[2]>>)

(* -------------------------- dispatch operations ------------------------ *)
\* the operation returns res after the transport calls cs
Consume(o, rsv, cs, res) ==
    /\ state' = IF res.ok THEN "ConsumedOk" ELSE "ConsumedErr"
    /\ op' = o
    /\ reservation_id' = rsv
    /\ calls' = cs
    /\ result' = Some(res)
    /\ UNCHANGED <<builder, args, last_set, era, reply>>

\* a fault reported to the caller as an error value instead of a panic
Halt_as_error(o, rsv) == Consume(o, rsv, calls, Err(<<"Fault">>))

\* a panic: the operation never returns
Halt(o, rsv) ==
    /\ state' = "Halted"
    /\ op' = o
    /\ reservation_id' = rsv
    /\ UNCHANGED <<builder, args, last_set, era, calls, reply, result>>

\* send that picks the primitive from the configured delay
send_by_delay ==
    /\ state = "Configuring"
    /\ IF check_data \/ get_request.panicked \/ is_none(to)
       THEN Halt("send", None)
       ELSE \E ret \in SendResults :
              Consume("send", None,
                      Append(calls,
                             IF delayed_duration > 0
                             THEN Call("send_bytes_delayed", None, to[1],
                                       get_request.bytes, value,
                                       Some(delayed_duration), None, ret)
                             ELSE Call("send_bytes", None, to[1],
                                       get_request.bytes, value, None, None, ret)),
                      map_err(ret))

\* send that validates only after the transport call
send_validate_last ==
    /\ state = "Configuring"
    /\ IF get_request.panicked \/ is_none(to)
       THEN Halt("send", None)
       ELSE \E ret \in SendResults :
              LET cs == Append(calls, Call("send_bytes", None, to[1],
                                           get_request.bytes, value, None, None, ret))
              IN  IF check_data
                  THEN /\ state' = "Halted"
                       /\ op' = "send"
                       /\ calls' = cs
                       /\ UNCHANGED <<builder, args, last_set, era, reservation_id, reply, result>>
                  ELSE Consume("send", None, cs, map_err(ret))

send ==
    /\ state = "Configuring"
    /\ IF check_data \/ get_request.panicked \/ is_none(to)
       THEN Halt("send", None)
       ELSE \E ret \in SendResults :
              Consume("send", None,
                      Append(calls, Call("send_bytes", None, to[1],
                                         get_request.bytes, value, None, None, ret)),
                      map_err(ret))

\* send_delayed that falls back to an immediate send when the delayed one fails
send_delayed_with_fallback ==
    /\ state = "Configuring"
    /\ IF check_data \/ get_request.panicked \/ is_none(to)
       THEN Halt("send_delayed", None)
       ELSE \E ret \in SendResults, ret2 \in SendResults :
              LET c1 == Call("send_bytes_delayed", None, to[1], get_request.bytes,
                             value, Some(delayed_duration), None, ret)
                  c2 == Call("send_bytes", None, to[1], get_request.bytes,
                             value, None, None, ret2)
              IN  IF ret.ok
                  THEN Consume("send_delayed", None, Append(calls, c1), ret)
                  ELSE Consume("send_delayed", None, calls \o <<c1, c2>>, map_err(ret2))

send_delayed ==
    /\ state = "Configuring"
    /\ IF check_data \/ get_request.panicked \/ is_none(to)
       THEN Halt("send_delayed", None)
       ELSE \E ret \in SendResults :
              Consume("send_delayed", None,
                      Append(calls, Call("send_bytes_delayed", None, to[1],
                                         get_request.bytes, value,
                                         Some(delayed_duration), None, ret)),
                      map_err(ret))

send_delayed_with_reservation(rsv) ==
    /\ state = "Configuring"
    /\ IF check_data \/ get_request.panicked \/ is_none(to)
       THEN Halt("send_delayed_with_reservation", Some(rsv))
       ELSE \E ret \in SendResults :
              Consume("send_delayed_with_reservation", Some(rsv),
                      Append(calls, Call("send_bytes_delayed_from_reservation",
                                         Some(rsv), to[1], get_request.bytes, value,
                                         Some(delayed_duration), None, ret)),
                      map_err(ret))

\* send_recv that honours the configured delay
send_recv_delayed ==
    /\ state = "Configuring"
    /\ IF check_data \/ get_request.panicked \/ is_none(to)
       THEN Halt("send_recv", None)
       ELSE \E ret \in ForReplyResults :
              LET c == IF delayed_duration > 0
                       THEN Call("send_bytes_delayed", None, to[1], get_request.bytes,
                                 value, Some(delayed_duration), None, ret)
                       ELSE Call("send_bytes_for_reply_as", None, to[1],
                                 get_request.bytes, value, None, Some(0), ret)
                  cs == Append(calls, c)
              IN  IF ret.ok
                  THEN /\ state' = "Awaiting"
                       /\ op' = "send_recv"
                       /\ calls' = cs
                       /\ UNCHANGED <<builder, args, last_set, era, reservation_id, reply, result>>
                  ELSE Consume("send_recv", None, cs, map_err(ret))

\* send_recv up to its await: the send-for-reply call
send_recv ==
    /\ state = "Configuring"
    /\ IF check_data \/ get_request.panicked \/ is_none(to)
       THEN Halt("send_recv", None)
       ELSE \E ret \in ForReplyResults :
              LET cs == Append(calls, Call("send_bytes_for_reply_as", None, to[1],
                                           get_request.bytes, value, None, Some(0), ret))
              IN  IF ret.ok
                  THEN /\ state' = "Awaiting"
                       /\ op' = "send_recv"
                       /\ calls' = cs
                       /\ UNCHANGED <<builder, args, last_set, era, reservation_id, reply, result>>
                  ELSE Consume("send_recv", None, cs, map_err(ret))

\* call_result that decodes the reply as a bare R, without the two echoes
call_result_plain(r) ==
    IF ~r.ok THEN r
    ELSE LET d == decode_R(r.val)
         IN  IF d.ok THEN Ok(<<"Value", d.val[1]>>) ELSE Err(<<"Decode">>)

\* what send_recv returns once the future resolved to r
call_result(r) ==
    IF ~r.ok THEN r
    ELSE LET d == decode_reply(r.val)
         IN  IF d.ok THEN Ok(<<"Value", d.val[3]>>) ELSE Err(<<"Decode">>)

\* send_recv from its await on: the reply arrives, or the transport fails
send_recv_await ==
    /\ state = "Awaiting"
    /\ \E r \in Replies :
         /\ reply' = Some(r)
         /\ result' = Some(call_result(r))
         /\ state' = IF call_result(r).ok THEN "ConsumedOk" ELSE "ConsumedErr"
    /\ UNCHANGED <<builder, args, last_set, era, op, reservation_id, calls>>

(* ------------------------------ send_msg! ------------------------------ *)
\* send_msg!(program_id, service_name, method_name, payload, value): the
\* transport call it makes and what it evaluates to, ret being what the
\* transport returns
send_msg(program_id, sname, mname, p, v, ret) ==
    LET request == encode_str(sname) \o encode_str(mname) \o encode(p)
    IN  [call |-> Call("send_bytes", None, program_id, request, v, None, None, ret),
         result |-> map_err(ret)]

\* send_msg!(program_id, service_name, method_name, payload)
send_msg_payload(program_id, sname, mname, p, ret) ==
    send_msg(program_id, sname, mname, p, 0, ret)

\* send_msg!(program_id, service_name, method_name)
send_msg_plain(program_id, sname, mname, ret) ==
    send_msg(program_id, sname, mname, <<"unit">>, 0, ret)

(* --------------------------- era arithmetic ---------------------------- *)
\* u64 arithmetic; h is `exec::block_height() as u64`, a u32 value, so none of
\* the sums below can reach u64::MAX
saturating_sub(a, b) == IF a >= b THEN a - b ELSE 0
saturating_div(a, b) == a \div b
saturating_add(a, b) == a + b

\* funcs.rs: checked_sub(era_init_block).unwrap_or(0)
funcs_blocks_passed_since_init_block(h, era_init_block) ==
    IF h >= era_init_block THEN h - era_init_block ELSE 0

\* eras_passed_since_init_block that rounds up
funcs_eras_passed_rounded_up(h, era_init_block) ==
    (funcs_blocks_passed_since_init_block(h, era_init_block)
        + ONE_ERA_IN_BLOCKS - 1) \div ONE_ERA_IN_BLOCKS

funcs_eras_passed_since_init_block(h, era_init_block) ==
    saturating_div(funcs_blocks_passed_since_init_block(h, era_init_block),
                   ONE_ERA_IN_BLOCKS)

testnet_active_era_since_last_block_registered(h) ==
    saturating_add(LAST_TESTNET_ACTIVE_ERA_REGISTERED,
        funcs_eras_passed_since_init_block(h, LAST_TESTNET_ACTIVE_ERA_INIT_BLOCK))

mainnet_active_era_since_last_timestamp_registered(h) ==
    saturating_add(LAST_MAINNET_ACTIVE_ERA_REGISTERED,
        funcs_eras_passed_since_init_block(h, LAST_MAINNET_ACTIVE_ERA_INIT_BLOCK))

funcs_blocks_left_for_next_testnet_era(h) ==
    LET eras_passed ==
            funcs_eras_passed_since_init_block(h, LAST_TESTNET_ACTIVE_ERA_INIT_BLOCK)
        blocks_passed ==
            funcs_blocks_passed_since_init_block(h, LAST_TESTNET_ACTIVE_ERA_INIT_BLOCK)
    IN  IF eras_passed >= 1
        THEN saturating_sub(ONE_ERA_IN_BLOCKS, blocks_passed % ONE_ERA_IN_BLOCKS)
        ELSE blocks_passed

funcs_blocks_left_for_next_mainnet_era(h) ==
    LET eras_passed ==
            funcs_eras_passed_since_init_block(h, LAST_MAINNET_ACTIVE_ERA_INIT_BLOCK)
        blocks_passed ==
            funcs_blocks_passed_since_init_block(h, LAST_MAINNET_ACTIVE_ERA_INIT_BLOCK)
    IN  IF eras_passed >= 1
        THEN saturating_sub(ONE_ERA_IN_BLOCKS, blocks_passed % ONE_ERA_IN_BLOCKS)
        ELSE blocks_passed

\* utils.rs
utils_blocks_passed_since_init_block(h, era_init_block) ==
    saturating_sub(h, era_init_block)

utils_eras_passed_since_init_block(h, era_init_block) ==
    saturating_div(utils_blocks_passed_since_init_block(h, era_init_block),
                   utils_ONE_ERA_IN_BLOCKS)

testnet_active_era(h) ==
    saturating_add(utils_LAST_TESTNET_ACTIVE_ERA_REGISTERED,
        utils_eras_passed_since_init_block(h, utils_LAST_TESTNET_ACTIVE_ERA_INIT_BLOCK))

mainnet_active_era(h) ==
    saturating_add(utils_LAST_MAINNET_ACTIVE_ERA_REGISTERED,
        utils_eras_passed_since_init_block(h, utils_LAST_MAINNET_ACTIVE_ERA_INIT_BLOCK))

utils_blocks_left_for_next_testnet_era(h) ==
    LET eras_passed ==
            utils_eras_passed_since_init_block(h, utils_LAST_TESTNET_ACTIVE_ERA_INIT_BLOCK)
        blocks_passed ==
            utils_blocks_passed_since_init_block(h, utils_LAST_TESTNET_ACTIVE_ERA_INIT_BLOCK)
    IN  IF eras_passed >= 1
        THEN saturating_sub(utils_ONE_ERA_IN_BLOCKS,
                            blocks_passed % utils_ONE_ERA_IN_BLOCKS)
        ELSE blocks_passed

utils_blocks_left_for_next_mainnet_era(h) ==
    LET eras_passed ==
            utils_eras_passed_since_init_block(h, utils_LAST_MAINNET_ACTIVE_ERA_INIT_BLOCK)
        blocks_passed ==
            utils_blocks_passed_since_init_block(h, utils_LAST_MAINNET_ACTIVE_ERA_INIT_BLOCK)
    IN  IF eras_passed >= 1
        THEN saturating_sub(utils_ONE_ERA_IN_BLOCKS,
                            blocks_passed % utils_ONE_ERA_IN_BLOCKS)
        ELSE blocks_passed

\* the era functions, by name
EraFunctions ==
    {"funcs::testnet_active_era_since_last_block_registered",
     "funcs::mainnet_active_era_since_last_timestamp_registered",
     "funcs::blocks_left_for_next_testnet_era",
     "funcs::blocks_left_for_next_mainnet_era",
     "utils::testnet_active_era",
     "utils::mainnet_active_era",
     "utils::blocks_left_for_next_testnet_era",
     "utils::blocks_left_for_next_mainnet_era"}

\* what the function named f returns at block height h
era_function(f, h) ==
    CASE f = "funcs::testnet_active_era_since_last_block_registered" ->
            testnet_active_era_since_last_block_registered(h)
      [] f = "funcs::mainnet_active_era_since_last_timestamp_registered" ->
            mainnet_active_era_since_last_timestamp_registered(h)
      [] f = "funcs::blocks_left_for_next_testnet_era" ->
            funcs_blocks_left_for_next_testnet_era(h)
      [] f = "funcs::blocks_left_for_next_mainnet_era" ->
            funcs_blocks_left_for_next_mainnet_era(h)
      [] f = "utils::testnet_active_era" -> testnet_active_era(h)
      [] f = "utils::mainnet_active_era" -> mainnet_active_era(h)
      [] f = "utils::blocks_left_for_next_testnet_era" ->
            utils_blocks_left_for_next_testnet_era(h)
      [] f = "utils::blocks_left_for_next_mainnet_era" ->
            utils_blocks_left_for_next_mainnet_era(h)

messaging == <<builder, args, last_set, state, op, reservation_id, calls, reply, result>>

\* a call of the era function f at the current block height
call_era_function(f) ==
    /\ era_call' = f
    /\ era_ret' = era_function(f, block_height)
    /\ UNCHANGED <<messaging, block_height>>

\* the era functions called at any of the sampled block heights
EraInit ==
    /\ to = None
    /\ service_name = None
    /\ method_name = None
    /\ payload = None
    /\ delayed_duration = 0
    /\ value = 0
    /\ args = <<>>
    /\ state = "Configuring"
    /\ op = "none"
    /\ reservation_id = None
    /\ calls = <<>>
    /\ reply = None
    /\ result = None
    /\ last_set = [send_to |-> None, blocks |-> None, with_value |-> None]
    /\ block_height \in Heights
    /\ era_call = "none"
    /\ era_ret = 0

EraNext == \E f \in EraFunctions : call_era_function(f)

EraSpec == EraInit /\ [][EraNext]_vars

(* ----------------------------- specification --------------------------- *)
Next ==
    \/ \E a \in Actors : send_to(a)
    \/ \E blocks \in 0..MaxDelay : blocks_to_send_delayed_message(blocks)
    \/ \E s \in Names : set_service_name(s)
    \/ \E m \in Names : set_method_name(m)
    \/ \E arg \in ArgValues : add_arg(arg)
    \/ \E v \in 0..MaxValue : with_value(v)
    \/ send
    \/ send_delayed
    \/ \E rsv \in ReservationIds : send_delayed_with_reservation(rsv)
    \/ send_recv
    \/ send_recv_await

Spec == Init /\ [][Next]_vars

(* ------------------------- vocabulary of the claims -------------------- *)
RECURSIVE ConcatEncodings(_)
ConcatEncodings(as) ==
    IF as = <<>> THEN <<>> ELSE encode(Head(as)) \o ConcatEncodings(Tail(as))

\* the payload the arguments are meant to frame to
ArgFraming(as) == IF as = <<>> THEN encode_unit ELSE ConcatEncodings(as)

RoutingSet == is_some(service_name) /\ is_some(method_name)
RoutingUnset == is_none(service_name) /\ is_none(method_name)
ValidBuilder == is_some(to) /\ (RoutingSet \/ RoutingUnset)
Dispatched == op # "none"

\* the wire payload the builder is meant to produce
Framed ==
    IF RoutingSet
    THEN encode_str(service_name[1]) \o encode_str(method_name[1]) \o ArgFraming(args)
    ELSE ArgFraming(args)

\* the transport primitive of each dispatch operation
PrimOf(o) ==
    CASE o = "send" -> "send_bytes"
      [] o = "send_delayed" -> "send_bytes_delayed"
      [] o = "send_delayed_with_reservation" -> "send_bytes_delayed_from_reservation"
      [] o = "send_recv" -> "send_bytes_for_reply_as"

(* -------------------------------- claims ------------------------------- *)
\* C1: with a destination and no service/method name, the payload handed to
\* the transport is the unit encoding when no argument was appended, and the
\* encodings of the appended arguments concatenated in call order otherwise.
C1_UnroutedPayload ==
    \A i \in DOMAIN calls :
        RoutingUnset => calls[i].payload = ArgFraming(args)

\* C2: with service S and method M set, the payload handed to the transport
\* is encode(S) ++ encode(M) ++ the argument framing.
C2_RoutedPayload ==
    \A i \in DOMAIN calls :
        RoutingSet =>
            calls[i].payload = encode_str(service_name[1]) \o
                               encode_str(method_name[1]) \o ArgFraming(args)

\* C3: a dispatch operation on a builder whose destination was never set
\* halts and returns nothing to the caller.
C3_NoDestinationHalts ==
    (Dispatched /\ is_none(to)) => (state = "Halted" /\ is_none(result))

C3_Witness ==
    /\ op = "send_delayed"
    /\ is_none(to)
    /\ is_some(payload)
    /\ RoutingSet
    /\ state = "Halted"

\* C4: a dispatch operation on a builder with exactly one of service name and
\* method name set halts; every dispatch that reaches the transport has both
\* names set or neither.
C4_PartialRoutingHalts ==
    /\ (Dispatched /\ ~(RoutingSet \/ RoutingUnset)) =>
            (state = "Halted" /\ is_none(result))
    /\ calls # <<>> => (RoutingSet \/ RoutingUnset)

C4_Witness ==
    /\ op = "send"
    /\ is_some(to)
    /\ is_some(payload)
    /\ is_none(service_name)
    /\ is_some(method_name)
    /\ state = "Halted"

\* C5: send on a valid builder with delay 0 invokes the immediate send
\* primitive exactly once, with the configured destination, the framed payload
\* and the configured value, and no other primitive.
C5_SendImmediateOnce ==
    (op = "send" /\ ValidBuilder /\ delayed_duration = 0) =>
        /\ Len(calls) = 1
        /\ calls[1].prim = "send_bytes"
        /\ calls[1].dest = to[1]
        /\ calls[1].payload = Framed
        /\ calls[1].value = value

\* C6: send_delayed on a valid builder with delay d > 0 invokes the delayed
\* send primitive exactly once, with offset d and the configured destination,
\* framed payload and value.
C6_SendDelayedOffset ==
    (op = "send_delayed" /\ ValidBuilder /\ delayed_duration > 0) =>
        /\ Len(calls) = 1
        /\ calls[1].prim = "send_bytes_delayed"
        /\ calls[1].delay = Some(delayed_duration)
        /\ calls[1].dest = to[1]
        /\ calls[1].payload = Framed
        /\ calls[1].value = value

\* C7: send_delayed_with_reservation(r) on a valid builder invokes the
\* reservation-funded delayed primitive with reservation r and the configured
\* delay, whatever the delay, and no other primitive.
C7_ReservationPath ==
    (op = "send_delayed_with_reservation" /\ ValidBuilder) =>
        /\ Len(calls) = 1
        /\ calls[1].prim = "send_bytes_delayed_from_reservation"
        /\ calls[1].reservation = reservation_id
        /\ calls[1].delay = Some(delayed_duration)

\* C8: when the reply to send_recv is the encoding of a 3-tuple (s, m, v),
\* send_recv returns v, whatever the echoed names s and m.
C8_ReplyThirdElement ==
    \A s \in EchoNames, m \in EchoNames, v \in ReplyVals :
        (/\ op = "send_recv"
         /\ is_some(reply)
         /\ reply[1].ok
         /\ reply[1].val = encode_str(s) \o encode_str(m) \o <<v>>)
        => (state = "ConsumedOk" /\ result = Some(Ok(<<"Value", v>>)))

C8_Witness ==
    /\ op = "send_recv"
    /\ state = "ConsumedOk"
    /\ RoutingSet
    /\ is_some(reply)
    /\ reply[1].ok
    /\ reply[1].val = encode_str(<<69>>) \o encode_str(<<69>>) \o <<42>>
    /\ result = Some(Ok(<<"Value", 42>>))

\* C9: when the transport primitive of a dispatch operation reports a failure,
\* at send time or at reply time, the operation returns that failure as an
\* error value, and its primitive is the only transport call made.
C9_FailurePropagatedOnce ==
    /\ \A i \in DOMAIN calls :
          ~calls[i].ret.ok =>
              /\ state = "ConsumedErr"
              /\ result = Some(Err(<<"Core", calls[i].ret.val[2]>>))
              /\ Len(calls) = 1
              /\ calls[1].prim = PrimOf(op)
    /\ (is_some(reply) /\ ~reply[1].ok) =>
              /\ state = "ConsumedErr"
              /\ result = Some(reply[1])
              /\ Len(calls) = 1
              /\ calls[1].prim = PrimOf(op)

C9_Witness ==
    /\ op = "send_delayed"
    /\ state = "ConsumedErr"
    /\ Len(calls) = 1
    /\ calls[1].ret = Err(<<"CoreError", "rejected">>)
    /\ result = Some(Err(<<"Core", "rejected">>))

\* C10: a dispatch operation halts only on the validation fault: with a
\* destination and both or neither of the names set it never halts, whatever
\* arguments were appended, none included.
C10_HaltOnlyOnValidationFault ==
    state = "Halted" => ~ValidBuilder

\* C11 (as stated): in send and send_delayed the primitive follows the
\* configured delay: the immediate one when the delay is 0, the delayed one
\* with offset d when the delay is d > 0.
C11_ModeFollowsDelay ==
    (op \in {"send", "send_delayed"} /\ calls # <<>>) =>
        /\ delayed_duration = 0 => calls[1].prim = "send_bytes"
        /\ delayed_duration > 0 =>
              (calls[1].prim = "send_bytes_delayed" /\
               calls[1].delay = Some(delayed_duration))

\* C11 (amended): the primitive follows the operation, not the delay: a call
\* made by send is the immediate primitive whatever the delay, and a call made
\* by send_delayed is the delayed primitive with the configured delay as
\* offset, 0 included.
C11_ModeFollowsOperation ==
    /\ (op = "send" /\ calls # <<>>) =>
          (Len(calls) = 1 /\ calls[1].prim = "send_bytes" /\ calls[1].delay = None)
    /\ (op = "send_delayed" /\ calls # <<>>) =>
          (/\ Len(calls) = 1
           /\ calls[1].prim = "send_bytes_delayed"
           /\ calls[1].delay = Some(delayed_duration))

C11_Witness ==
    /\ op = "send"
    /\ delayed_duration > 0
    /\ Len(calls) = 1
    /\ calls[1].prim = "send_bytes"

\* C12: send_recv ignores the configured delay: its one transport call is the
\* send-for-reply primitive, without a delay or a reservation, with the
\* destination, request and value of the builder.
C12_SendRecvIgnoresDelay ==
    (op = "send_recv" /\ calls # <<>>) =>
        /\ Len(calls) = 1
        /\ calls[1].prim = "send_bytes_for_reply_as"
        /\ calls[1].delay = None
        /\ calls[1].reservation = None
        /\ calls[1].dest = to[1]
        /\ calls[1].value = value
        /\ calls[1].payload =
              (IF RoutingSet
               THEN encode_str(service_name[1]) \o encode_str(method_name[1])
               ELSE <<>>) \o encode_unit

C12_Witness ==
    /\ op = "send_recv"
    /\ delayed_duration = MaxDelay
    /\ Len(calls) = 1
    /\ calls[1].prim = "send_bytes_for_reply_as"
    /\ state = "ConsumedOk"

\* C16: a dispatch operation that halts on the validation fault (no
\* destination, or one name without the other) has invoked no transport
\* primitive.
C16_NoCallBeforeValidationHalt ==
    (state = "Halted" /\ ~ValidBuilder) => calls = <<>>

C16_Witness ==
    /\ state = "Halted"
    /\ op = "send"
    /\ is_some(to)
    /\ is_some(payload)
    /\ is_some(service_name)
    /\ is_none(method_name)
    /\ calls = <<>>

\* C17: send_msg!(dest, S, M, p, v) makes the transport call of the builder
\* send_to(dest).service_name(S).method_name(M).add_arg(p).with_value(v).send(),
\* and send_msg!(dest, S, M) that of the same builder without add_arg and
\* with_value.
C17_MacroSameCall ==
    (op = "send" /\ is_some(to) /\ RoutingSet) =>
        /\ Len(args) = 1 =>
              /\ Len(calls) = 1
              /\ calls[1] = send_msg(to[1], service_name[1], method_name[1],
                                     args[1], value, calls[1].ret).call
        /\ (args = <<>> /\ value = 0) =>
              /\ Len(calls) = 1
              /\ calls[1] = send_msg_plain(to[1], service_name[1], method_name[1],
                                           calls[1].ret).call

\* C13: the destination, the delay and the value are the argument of the last
\* call of their own setter, or unset, 0 and 0 when it was never called; a
\* call of one of the three setters leaves every other builder field
\* unchanged, the argument bytes and the two names included.
C13_SettersOverwriteAndFrame ==
    /\ [](/\ to = last_set.send_to
          /\ delayed_duration =
                (IF is_none(last_set.blocks) THEN 0 ELSE last_set.blocks[1])
          /\ value =
                (IF is_none(last_set.with_value) THEN 0 ELSE last_set.with_value[1]))
    /\ [][/\ last_set'.send_to # last_set.send_to =>
                UNCHANGED <<service_name, method_name, payload,
                            delayed_duration, value, args>>
          /\ last_set'.blocks # last_set.blocks =>
                UNCHANGED <<to, service_name, method_name, payload, value, args>>
          /\ last_set'.with_value # last_set.with_value =>
                UNCHANGED <<to, service_name, method_name, payload,
                            delayed_duration, args>>]_vars

C13_Witness ==
    /\ last_set = [send_to |-> Some("actorY"), blocks |-> Some(MaxDelay),
                   with_value |-> Some(MaxValue)]
    /\ to = Some("actorY")
    /\ delayed_duration = MaxDelay
    /\ value = MaxValue
    /\ RoutingSet
    /\ Len(args) = MaxArgs

(* ------------------------ claims on era arithmetic --------------------- *)
BlocksLeftFunctions ==
    {"funcs::blocks_left_for_next_testnet_era",
     "funcs::blocks_left_for_next_mainnet_era",
     "utils::blocks_left_for_next_testnet_era",
     "utils::blocks_left_for_next_mainnet_era"}
ActiveEraFunctions == EraFunctions \ BlocksLeftFunctions

\* the reference block and the reference era of each function
InitBlockOf(f) ==
    CASE f \in {"funcs::testnet_active_era_since_last_block_registered",
                "funcs::blocks_left_for_next_testnet_era"} ->
            LAST_TESTNET_ACTIVE_ERA_INIT_BLOCK
      [] f \in {"funcs::mainnet_active_era_since_last_timestamp_registered",
                "funcs::blocks_left_for_next_mainnet_era"} ->
            LAST_MAINNET_ACTIVE_ERA_INIT_BLOCK
      [] f \in {"utils::testnet_active_era",
                "utils::blocks_left_for_next_testnet_era"} ->
            utils_LAST_TESTNET_ACTIVE_ERA_INIT_BLOCK
      [] f \in {"utils::mainnet_active_era",
                "utils::blocks_left_for_next_mainnet_era"} ->
            utils_LAST_MAINNET_ACTIVE_ERA_INIT_BLOCK

RefEraOf(f) ==
    CASE f = "funcs::testnet_active_era_since_last_block_registered" ->
            LAST_TESTNET_ACTIVE_ERA_REGISTERED
      [] f = "funcs::mainnet_active_era_since_last_timestamp_registered" ->
            LAST_MAINNET_ACTIVE_ERA_REGISTERED
      [] f = "utils::testnet_active_era" -> utils_LAST_TESTNET_ACTIVE_ERA_REGISTERED
      [] f = "utils::mainnet_active_era" -> utils_LAST_MAINNET_ACTIVE_ERA_REGISTERED

\* C14: the blocks-left functions return r with 1 <= r <= ONE_ERA_IN_BLOCKS
\* and b + r a multiple of ONE_ERA_IN_BLOCKS, b being the blocks passed since
\* the reference block (0 below it).
C14_BlocksLeftToNextEra ==
    era_call \in BlocksLeftFunctions =>
        LET i == InitBlockOf(era_call)
            b == IF block_height >= i THEN block_height - i ELSE 0
        IN  /\ 1 <= era_ret
            /\ era_ret <= ONE_ERA_IN_BLOCKS
            /\ (b + era_ret) % ONE_ERA_IN_BLOCKS = 0

\* C15: the estimated active era is the reference era plus the complete eras
\* since the reference block, and the reference era below that block; it is
\* never below the reference era and never decreases as the height grows.
C15_ActiveEraEstimate ==
    era_call \in ActiveEraFunctions =>
        LET i == InitBlockOf(era_call)
            ref == RefEraOf(era_call)
        IN  /\ block_height >= i =>
                  era_ret = ref + (block_height - i) \div ONE_ERA_IN_BLOCKS
            /\ block_height < i => era_ret = ref
            /\ era_ret >= ref
            /\ \A h \in Heights :
                  h >= block_height => era_function(era_call, h) >= era_ret

C15_Witness ==
    /\ era_call = "funcs::testnet_active_era_since_last_block_registered"
    /\ block_height = LAST_TESTNET_ACTIVE_ERA_INIT_BLOCK + 2 * ONE_ERA_IN_BLOCKS - 1
    /\ era_ret = LAST_TESTNET_ACTIVE_ERA_REGISTERED + 1

====
